---------------------------- MODULE Spec2Model ----------------------------
(* Query resolution pipeline of the AI data analysis agent:                 *)
(* QueryProcessor.process_query (tier 1 pattern matching, tier 2 code       *)
(* synthesis and execution) over a pandas DataFrame held in the session.    *)
EXTENDS Integers, Sequences, FiniteSets, TLC

(***************************************************************************)
(* Bounds of the model.                                                    *)
(***************************************************************************)
\* Largest number of rows of a loaded dataset.
MaxRows == 3

(***************************************************************************)
(* Python str operations used by the pipeline, on TLA+ strings.            *)
(***************************************************************************)
\* `sub in s`
Contains(s, sub) ==
    \E i \in 1..(Len(s) - Len(sub) + 1) : SubSeq(s, i, i + Len(sub) - 1) = sub

\* any(word in s for word in words)
ContainsAny(s, words) == \E w \in words : Contains(s, w)

UpperCase == <<"A","B","C","D","E","F","G","H","I","J","K","L","M",
               "N","O","P","Q","R","S","T","U","V","W","X","Y","Z">>
LowerCase == <<"a","b","c","d","e","f","g","h","i","j","k","l","m",
               "n","o","p","q","r","s","t","u","v","w","x","y","z">>

LowerChar(c) ==
    IF \E i \in 1..26 : UpperCase[i] = c
    THEN LowerCase[CHOOSE i \in 1..26 : UpperCase[i] = c]
    ELSE c

\* str.lower()
RECURSIVE Lower(_)
Lower(s) == IF s = "" THEN "" ELSE LowerChar(Head(s)) \o Lower(Tail(s))

IsSpace(c) == c \in {" ", "\t", "\n", "\r"}

RECURSIVE LStrip(_)
LStrip(s) == IF s # "" /\ IsSpace(Head(s)) THEN LStrip(Tail(s)) ELSE s

RECURSIVE RStrip(_)
RStrip(s) ==
    IF s # "" /\ IsSpace(SubSeq(s, Len(s), Len(s)))
    THEN RStrip(SubSeq(s, 1, Len(s) - 1))
    ELSE s

\* str.strip()
Strip(s) == RStrip(LStrip(s))

\* Position of the first occurrence of sub in s at or after position from,
\* 0 when there is none.
Find(s, sub, from) ==
    LET hits == {i \in from..(Len(s) - Len(sub) + 1) :
                     SubSeq(s, i, i + Len(sub) - 1) = sub}
    IN IF hits = {} THEN 0 ELSE CHOOSE i \in hits : \A j \in hits : i <= j

\* str.split('\n')
RECURSIVE SplitLines(_)
SplitLines(s) ==
    LET p == Find(s, "\n", 1)
    IN IF p = 0 THEN <<s>>
       ELSE <<SubSeq(s, 1, p - 1)>> \o SplitLines(SubSeq(s, p + 1, Len(s)))

\* '\n'.join(lines)
RECURSIVE JoinLines(_)
JoinLines(lines) ==
    IF lines = <<>> THEN ""
    ELSE IF Len(lines) = 1 THEN lines[1]
    ELSE lines[1] \o "\n" \o JoinLines(Tail(lines))

Digits == <<"0","1","2","3","4","5","6","7","8","9">>
IsDigit(c) == \E i \in 1..10 : Digits[i] = c
DigitVal(c) == (CHOOSE i \in 1..10 : Digits[i] = c) - 1

\* int(s) of a string of decimal digits
RECURSIVE ParseInt(_)
ParseInt(s) ==
    IF s = "" THEN 0
    ELSE 10 * ParseInt(SubSeq(s, 1, Len(s) - 1)) + DigitVal(SubSeq(s, Len(s), Len(s)))

\* The longest run of digits starting at position i of s.
RECURSIVE DigitRun(_, _)
DigitRun(s, i) ==
    IF i <= Len(s) /\ IsDigit(SubSeq(s, i, i))
    THEN SubSeq(s, i, i) \o DigitRun(s, i + 1)
    ELSE ""

\* _extract_number taking the last run of digits: numbers[-1]
_extract_number_last(text, default) ==
    LET starts == {i \in 1..Len(text) :
                      /\ IsDigit(SubSeq(text, i, i))
                      /\ (i = 1 \/ ~IsDigit(SubSeq(text, i - 1, i - 1)))}
    IN IF starts = {} THEN default
       ELSE ParseInt(DigitRun(text, CHOOSE i \in starts : \A j \in starts : i >= j))

\* re.findall(r'\d+', text)[0] if any, else default
_extract_number(text, default) ==
    LET starts == {i \in 1..Len(text) : IsDigit(SubSeq(text, i, i))}
    IN IF starts = {} THEN default
       ELSE ParseInt(DigitRun(text, CHOOSE i \in starts : \A j \in starts : i <= j))

(***************************************************************************)
(* Values: results handed to the presentation layer.  Every value has the  *)
(* same fields so that values of different kinds can be stored in one      *)
(* variable.                                                               *)
(***************************************************************************)
\* A pandas DataFrame result: column labels and rows of cells.
Table(cols, rows) == [kind |-> "table", cols |-> cols, rows |-> rows, text |-> "", num |-> 0]
\* A Python str.
Text(s) == [kind |-> "text", cols |-> <<>>, rows |-> <<>>, text |-> s, num |-> 0]
\* A Python list of labels.
Labels(l) == [kind |-> "list", cols |-> l, rows |-> <<>>, text |-> "", num |-> 0]
\* A Python int.
Number(n) == [kind |-> "int", cols |-> <<>>, rows |-> <<>>, text |-> "", num |-> n]
\* Python None.
NoneValue == [kind |-> "none", cols |-> <<>>, rows |-> <<>>, text |-> "", num |-> 0]
\* Any other Python object (a module, a file's content).
Object(s) == [kind |-> "object", cols |-> <<>>, rows |-> <<>>, text |-> s, num |-> 0]

\* A call that returned v, and a call that raised an exception of class cls
\* ("Exception" for every subclass of Exception, "BaseException" for
\* SystemExit, KeyboardInterrupt and GeneratorExit) with message msg.
Returned(v) == [raised |-> FALSE, value |-> v, cls |-> "", msg |-> ""]
Raised(c, m) == [raised |-> TRUE, value |-> NoneValue, cls |-> c, msg |-> m]

(***************************************************************************)
(* The dataset: a DataFrame as its column labels, their dtypes and its     *)
(* rows.  A cell is <<v>>, or <<>> for a null (NaN).                       *)
(***************************************************************************)
NaN == <<>>

Frame(cols, dtypes, rows) == [columns |-> cols, dtypes |-> dtypes, rows |-> rows]

\* What the ingestion (pd.read_excel of an empty sheet) yields: no columns.
EmptyFrame == Frame(<<>>, <<>>, <<>>)

\* Row i of the all-numeric layout {id, age, salary}.
NumericRow(i) == << <<i>>, <<20 + i>>, <<100 * i>> >>
\* Row i of the mixed layout {x, name}: x is null in row 2, name in rows 1, 2.
MixedRow(i) == << IF i = 2 THEN NaN ELSE <<i>>, IF i <= 2 THEN NaN ELSE <<"n">> >>

NumericFrame(n) ==
    Frame(<<"id", "age", "salary">>, <<"int64", "int64", "int64">>,
          [i \in 1..n |-> NumericRow(i)])
MixedFrame(n) ==
    Frame(<<"x", "name">>, <<"float64", "object">>, [i \in 1..n |-> MixedRow(i)])

\* The all-numeric layout with the same age in every row.
FlatFrame(n) ==
    Frame(<<"id", "age", "salary">>, <<"int64", "int64", "int64">>,
          [i \in 1..n |-> << <<i>>, <<30>>, <<100 * i>> >>])

\* The datasets a session may load.
Datasets ==
    {EmptyFrame} \cup {NumericFrame(n) : n \in 0..MaxRows}
                 \cup {MixedFrame(n) : n \in 0..MaxRows}
                 \cup {FlatFrame(MaxRows)}

NumRows(f) == Len(f.rows)
NumCols(f) == Len(f.columns)
\* The numeric dtypes without the integers.
IsNumericDtype_float_only(t) == t = "float64"
IsNumericDtype(t) == t \in {"int64", "float64"}
\* correlation over every column: self.df.corr() without select_dtypes
NumericCols_all(f) == 1..NumCols(f)
\* df.select_dtypes(include=[np.number]).columns, as column positions
NumericCols(f) == {c \in 1..NumCols(f) : IsNumericDtype(f.dtypes[c])}
\* The cells of column c
Column(f, c) == [i \in 1..NumRows(f) |-> f.rows[i][c]]
\* col.isnull().sum()
NullCount(f, c) == Cardinality({i \in 1..NumRows(f) : f.rows[i][c] = NaN})
\* col.nunique()
UniqueCount(f, c) == Cardinality({f.rows[i][c] : i \in 1..NumRows(f)} \ {NaN})

\* The elements of the set of positions S in increasing order.
RECURSIVE Ascending(_)
Ascending(S) ==
    IF S = {} THEN <<>>
    ELSE LET m == CHOOSE a \in S : \A b \in S : a <= b
         IN <<m>> \o Ascending(S \ {m})

Min(a, b) == IF a <= b THEN a ELSE b

\* df.head(n) for n >= 0
head(f, n) == Table(f.columns, SubSeq(f.rows, 1, Min(n, NumRows(f))))

\* DataProcessor.get_column_info: one row per column (label, dtype,
\* non-null count, null count, unique values)
get_column_info(f) ==
    IF NumCols(f) = 0 THEN Table(<<>>, <<>>)
    ELSE Table(<<"Column", "Data Type", "Non-Null Count", "Null Count", "Unique Values">>,
               [c \in 1..NumCols(f) |->
                   << <<f.columns[c]>>, <<f.dtypes[c]>>,
                      <<NumRows(f) - NullCount(f, c)>>, <<NullCount(f, c)>>,
                      <<UniqueCount(f, c)>> >>])

\* df.describe(): the numeric columns when there are any, else all columns;
\* its "count" row.  A frame without columns raises ValueError.
describe(f) ==
    IF NumCols(f) = 0
    THEN Raised("Exception", "Cannot describe a DataFrame without columns")
    ELSE LET cs == Ascending(IF NumericCols(f) # {} THEN NumericCols(f)
                             ELSE 1..NumCols(f))
         IN Returned(Table([k \in 1..Len(cs) |-> f.columns[cs[k]]],
                           << [k \in 1..Len(cs) |->
                                   <<NumRows(f) - NullCount(f, cs[k])>>] >>))

\* c / n * 100 cut after two decimals, in hundredths of a percent
Percentage_truncated(c, n) == (c * 10000) \div n
\* round(x, 2) of c / n * 100, in hundredths of a percent
Percentage(c, n) == (c * 10000 * 2 + n) \div (2 * n)

\* The positions S ordered by non-increasing key, ties in increasing position.
RECURSIVE Descending(_, _)
Descending(S, key) ==
    IF S = {} THEN <<>>
    ELSE LET m == CHOOSE a \in S :
                      \A b \in S : key[a] > key[b] \/ (key[a] = key[b] /\ a <= b)
         IN <<m>> \o Descending(S \ {m}, key)

\* DataProcessor.analyze_missing_data
analyze_missing_data(f) ==
    LET missing == [c \in 1..NumCols(f) |-> NullCount(f, c)]
        kept == {c \in 1..NumCols(f) : missing[c] > 0}
        order == Descending(kept, missing)
    IN IF kept = {} THEN Table(<<>>, <<>>)
       ELSE Table(<<"Column", "Missing Count", "Missing Percentage">>,
                  [k \in 1..Len(order) |->
                      << <<f.columns[order[k]]>>, <<missing[order[k]]>>,
                         <<Percentage(missing[order[k]], NumRows(f))>> >>])

\* DataFrame.empty
IsEmptyTable(t) == t.cols = <<>> \/ t.rows = <<>>

\* DataProcessor.correlation_analysis: the square matrix over the numeric
\* columns.  An entry is defined where the two columns hold at least two
\* complete pairs and neither is constant over them ("1.0" for a column
\* against itself, "r" for two columns) and is NaN elsewhere.
correlation_analysis(f) ==
    LET cs == Ascending(NumericCols(f))
        complete(a, b) == {i \in 1..NumRows(f) :
                              f.rows[i][a] # NaN /\ f.rows[i][b] # NaN}
        varies(a, b) == Cardinality({f.rows[i][a] : i \in complete(a, b)}) >= 2
        entry(a, b) == IF ~(varies(a, b) /\ varies(b, a)) THEN NaN
                       ELSE IF a = b THEN <<"1.0">> ELSE <<"r">>
    IN Table([k \in 1..Len(cs) |-> f.columns[cs[k]]],
             [k \in 1..Len(cs) |-> [j \in 1..Len(cs) |-> entry(cs[k], cs[j])]])

(***************************************************************************)
(* DataProcessor.filter_data.  The conditions dict is the sequence of its  *)
(* items <<column, condition>> in insertion order; a condition is a range  *)
(* dict with a min key, a max key or both, a list of values, or one value. *)
(***************************************************************************)
\* {'min': a, 'max': b}; lo and hi are <<a>> and <<b>>, <<>> for an absent key
RangeCond(lo, hi) == [kind |-> "dict", lo |-> lo, hi |-> hi, values |-> {}]
\* [v1, v2, ...]
ListCond(values) == [kind |-> "list", lo |-> <<>>, hi |-> <<>>, values |-> values]
\* a single value v
ValueCond(v) == [kind |-> "value", lo |-> <<>>, hi |-> <<>>, values |-> {v}]

\* series <= b with the bound left out.
AtMost_exclusive(cell, b) == cell # NaN /\ cell[1] < b

\* series >= a and series <= b on one cell: a comparison with NaN is False
AtLeast(cell, a) == cell # NaN /\ cell[1] >= a
AtMost(cell, b) == cell # NaN /\ cell[1] <= b

\* The position of the column labelled name, 0 when f has none.
ColumnAt(f, name) ==
    IF \E c \in 1..NumCols(f) : f.columns[c] = name
    THEN CHOOSE c \in 1..NumCols(f) : f.columns[c] = name
    ELSE 0

\* The body of the loop of filter_data for one item of the dict; frame[mask]
\* keeps the rows the mask holds for, in order.
FilterItem(f, name, cond) ==
    LET c == ColumnAt(f, name)
        lower == IF cond.lo = <<>> THEN f.rows
                 ELSE SelectSeq(f.rows, LAMBDA row : AtLeast(row[c], cond.lo[1]))
        upper == IF cond.hi = <<>> THEN lower
                 ELSE SelectSeq(lower, LAMBDA row : AtMost(row[c], cond.hi[1]))
        isin(row) == row[c] # NaN /\ row[c][1] \in cond.values
    IN IF c = 0 THEN f
       ELSE IF cond.kind = "dict" THEN [f EXCEPT !.rows = upper]
       ELSE [f EXCEPT !.rows = SelectSeq(f.rows, isin)]

RECURSIVE filter_data(_, _)
filter_data(f, conditions) ==
    IF conditions = <<>> THEN f
    ELSE filter_data(FilterItem(f, Head(conditions)[1], Head(conditions)[2]),
                     Tail(conditions))

(***************************************************************************)
(* Resolution outcomes: the dicts process_query returns.                   *)
(***************************************************************************)
Success(data, explanation, code) ==
    [success |-> TRUE, data |-> data, explanation |-> explanation, code |-> code]
Failure(error) == [success |-> FALSE, error |-> error]

(***************************************************************************)
(* Tier 1: QueryProcessor._process_simple_query on the query text, the     *)
(* processor's frame df and its DataProcessor's copy dp.  The rules are    *)
(* tried in the order of the source; the first whose trigger holds decides.*)
(***************************************************************************)
TopRule(q) == Contains(q, "top") /\ ContainsAny(q, {"rows", "records", "entries"})
\* The overview rule without the keyword "summary".
InfoRule_without_summary(q) == ContainsAny(q, {"info", "information", "overview"})
InfoRule(q) == ContainsAny(q, {"info", "information", "overview", "summary"})
StatsRule(q) == ContainsAny(q, {"statistics", "stats", "describe", "summary"})
CountRule(q) == ContainsAny(q, {"count", "number of rows", "how many rows"})
ColumnsRule(q) == ContainsAny(q, {"columns", "column names", "fields"})
MissingRule(q) == ContainsAny(q, {"missing", "null", "nan", "empty"})
CorrRule(q) == Contains(q, "correlation") \/ Contains(q, "corr")

\* Some tier-1 rule's trigger holds on the normalized query.
AnyRule(q) ==
    \/ TopRule(q) \/ InfoRule(q) \/ StatsRule(q) \/ CountRule(q)
    \/ ColumnsRule(q) \/ MissingRule(q) \/ CorrRule(q)

\* _process_simple_query with the column listing tried before the row count.
_process_simple_query_columns_first(query, df, dp) ==
    LET query_lower == Strip(Lower(query))
        n == _extract_number(query, 10)
        stats == describe(df)
        missing_data == analyze_missing_data(dp)
    IN IF TopRule(query_lower)
       THEN Returned(Success(head(df, n),
                             "Showing top " \o ToString(n) \o " rows from the dataset",
                             "df.head(" \o ToString(n) \o ")"))
       ELSE IF InfoRule(query_lower)
       THEN Returned(Success(get_column_info(dp),
                             "Dataset overview and column information", "df.info()"))
       ELSE IF StatsRule(query_lower)
       THEN IF stats.raised THEN stats
            ELSE Returned(Success(stats.value,
                                  "Statistical summary of numeric columns", "df.describe()"))
       ELSE IF ColumnsRule(query_lower)
       THEN Returned(Success(Labels(df.columns),
                             "List of all columns in the dataset", "df.columns.tolist()"))
       ELSE IF CountRule(query_lower)
       THEN Returned(Success(Text("Total rows: " \o ToString(NumRows(df))),
                             "The dataset contains " \o ToString(NumRows(df)) \o " rows",
                             "len(df)"))
       ELSE IF MissingRule(query_lower)
       THEN Returned(Success(IF ~IsEmptyTable(missing_data) THEN missing_data
                             ELSE Text("No missing values found!"),
                             "Analysis of missing values in the dataset",
                             "df.isnull().sum()"))
       ELSE IF CorrRule(query_lower)
       THEN Returned(Success(correlation_analysis(dp),
                             "Correlation matrix for numeric columns", "df.corr()"))
       ELSE Returned(Failure("Query not recognized"))

_process_simple_query(query, df, dp) ==
    LET query_lower == Strip(Lower(query))
        n == _extract_number(query, 10)
        stats == describe(df)
        missing_data == analyze_missing_data(dp)
    IN IF TopRule(query_lower)
       THEN Returned(Success(head(df, n),
                             "Showing top " \o ToString(n) \o " rows from the dataset",
                             "df.head(" \o ToString(n) \o ")"))
       ELSE IF InfoRule(query_lower)
       THEN Returned(Success(get_column_info(dp),
                             "Dataset overview and column information", "df.info()"))
       ELSE IF StatsRule(query_lower)
       THEN IF stats.raised THEN stats
            ELSE Returned(Success(stats.value,
                                  "Statistical summary of numeric columns", "df.describe()"))
       ELSE IF CountRule(query_lower)
       THEN Returned(Success(Text("Total rows: " \o ToString(NumRows(df))),
                             "The dataset contains " \o ToString(NumRows(df)) \o " rows",
                             "len(df)"))
       ELSE IF ColumnsRule(query_lower)
       THEN Returned(Success(Labels(df.columns),
                             "List of all columns in the dataset", "df.columns.tolist()"))
       ELSE IF MissingRule(query_lower)
       THEN Returned(Success(IF ~IsEmptyTable(missing_data) THEN missing_data
                             ELSE Text("No missing values found!"),
                             "Analysis of missing values in the dataset",
                             "df.isnull().sum()"))
       ELSE IF CorrRule(query_lower)
       THEN Returned(Success(correlation_analysis(dp),
                             "Correlation matrix for numeric columns", "df.corr()"))
       ELSE Returned(Failure("Query not recognized"))

(***************************************************************************)
(* Tier 2, code extraction: QueryProcessor._extract_code_from_response.    *)
(* The result is <<code>>, or <<>> for None.                               *)
(***************************************************************************)
\* The backquote character.  A TLA+ string cannot hold it, so the model writes
\* "~" for it everywhere; no text of the model uses "~" otherwise.
Backquote == "~"
Fence == Backquote \o Backquote \o Backquote
\* The regular expression Fence python \n (.*?) \n Fence, with DOTALL
FenceOpen == Fence \o "python\n"
FenceClose == "\n" \o Fence

\* 'df.' in line or any(keyword in line for keyword in ['import', 'print', '='])
CodeLike(line) == Contains(line, "df.") \/ ContainsAny(line, {"import", "print", "="})

\* The elements of seq that satisfy CodeLike, in order.
RECURSIVE CodeLines(_)
CodeLines(lines) ==
    IF lines = <<>> THEN <<>>
    ELSE (IF CodeLike(Head(lines)) THEN <<Head(lines)>> ELSE <<>>)
         \o CodeLines(Tail(lines))

_extract_code_from_response(response) ==
    LET open == Find(response, FenceOpen, 1)
        close == IF open = 0 THEN 0
                 ELSE Find(response, FenceClose, open + Len(FenceOpen))
        code_lines == CodeLines(SplitLines(response))
    IN IF open # 0 /\ close # 0
       THEN <<Strip(SubSeq(response, open + Len(FenceOpen), close - 1))>>
       ELSE IF code_lines # <<>> THEN <<JoinLines(code_lines)>> ELSE <<>>

\* Python truth of an Optional[str]: `if code:`
Truthy(code) == code # <<>> /\ code[1] # ""


(***************************************************************************)
(* Tier 2, execution: QueryProcessor._execute_pandas_code.  A fragment is  *)
(* Python source; the model interprets the statements and expressions      *)
(* listed here and takes every other line for a syntax error.  A run       *)
(* carries the frame bound to df (the session's own DataFrame object, not  *)
(* a copy) and the scope dict.                                             *)
(***************************************************************************)
\* The dict handed to exec and eval.
safe_dict ==
    [name \in {"df", "pd", "len", "sum", "max", "min", "round"} |-> Object(name)]

\* exec and eval add the interpreter's built-ins to a globals dict that has
\* no "__builtins__" entry.
WithBuiltins(scope) ==
    IF "__builtins__" \in DOMAIN scope THEN scope
    ELSE scope @@ [name \in {"__builtins__"} |-> Object("builtins")]

\* Names of the built-in namespace the fragments of the model use.
Builtins == {"len", "sum", "max", "min", "round", "open", "__import__", "SystemExit"}

\* Name lookup in the globals dict, then in its built-ins.
Resolves(name, scope) ==
    name \in DOMAIN scope \/ ("__builtins__" \in DOMAIN scope /\ name \in Builtins)

\* The expressions the model interprets.
Expressions ==
    {"len(df)", "df.shape[1]", "df.head(2)", "df.nosuch",
     "df.drop(df.index[0], inplace=True)",
     "open(\"/etc/hostname\").read()", "pd.read_csv(\"/etc/hostname\")"}

\* The free names of an expression.
ExprNames(e) ==
    CASE e = "len(df)" -> {"len", "df"}
      [] e = "open(\"/etc/hostname\").read()" -> {"open"}
      [] e = "pd.read_csv(\"/etc/hostname\")" -> {"pd"}
      [] OTHER -> {"df"}

\* The state of a run: the frame, the scope, whether it goes on ("ok"), has
\* raised or never ends, and the value of the last expression.
Run(df, scope, status, cls, msg, value) ==
    [df |-> df, scope |-> scope, status |-> status, cls |-> cls, msg |-> msg,
     value |-> value]

\* Evaluation of expression e.
Eval(e, df, scope) ==
    IF \E n \in ExprNames(e) : ~Resolves(n, scope)
    THEN Run(df, scope, "raised", "Exception",
             "name '" \o (CHOOSE n \in ExprNames(e) : ~Resolves(n, scope))
                 \o "' is not defined", NoneValue)
    ELSE CASE e = "len(df)" -> Run(df, scope, "ok", "", "", Number(NumRows(df)))
           [] e = "df.shape[1]" -> Run(df, scope, "ok", "", "", Number(NumCols(df)))
           [] e = "df.head(2)" -> Run(df, scope, "ok", "", "", head(df, 2))
           [] e = "df.nosuch" ->
                Run(df, scope, "raised", "Exception",
                    "'DataFrame' object has no attribute 'nosuch'", NoneValue)
           [] e = "df.drop(df.index[0], inplace=True)" ->
                IF NumRows(df) = 0
                THEN Run(df, scope, "raised", "Exception",
                         "index 0 is out of bounds for axis 0 with size 0", NoneValue)
                ELSE Run([df EXCEPT !.rows = Tail(df.rows)], scope, "ok", "", "",
                         NoneValue)
           [] e = "open(\"/etc/hostname\").read()" ->
                Run(df, scope, "ok", "", "", Object("contents of /etc/hostname"))
           [] e = "pd.read_csv(\"/etc/hostname\")" ->
                Run(df, scope, "ok", "", "", Object("DataFrame of /etc/hostname"))

Letters == {LowerCase[i] : i \in 1..26} \cup {UpperCase[i] : i \in 1..26} \cup {"_"}
IsIdentifier(s) == s # "" /\ \A i \in 1..Len(s) : SubSeq(s, i, i) \in Letters

\* The target and the right-hand side of `target = expression`.
Target(line) == SubSeq(line, 1, Find(line, " = ", 1) - 1)
Rhs(line) == SubSeq(line, Find(line, " = ", 1) + 3, Len(line))

\* What a line of a fragment is.
Kind(line) ==
    IF line = "import os" THEN "import"
    ELSE IF line = "raise SystemExit" THEN "raise"
    ELSE IF line = "while True: pass" THEN "loop"
    ELSE IF line \in Expressions THEN "expr"
    ELSE IF Find(line, " = ", 1) # 0 /\ IsIdentifier(Target(line))
            /\ Rhs(line) \in Expressions THEN "assign"
    ELSE "invalid"

\* One statement, from the state r of a run that goes on.
ExecLine(line, r) ==
    LET v == Eval(IF Kind(line) = "assign" THEN Rhs(line) ELSE line, r.df, r.scope)
    IN CASE Kind(line) = "import" ->
                Run(r.df, r.scope @@ [name \in {"os"} |-> Object("module os")],
                    "ok", "", "", NoneValue)
         [] Kind(line) = "raise" ->
                Run(r.df, r.scope, "raised", "BaseException", "", NoneValue)
         [] Kind(line) = "loop" ->
                Run(r.df, r.scope, "diverged", "", "", NoneValue)
         [] Kind(line) = "expr" -> v
         [] Kind(line) = "assign" ->
                IF v.status = "ok"
                THEN Run(v.df, [name \in {Target(line)} |-> v.value] @@ v.scope,
                         "ok", "", "", NoneValue)
                ELSE v

\* The statements of a fragment in order, up to the first that raises or
\* does not end.
RECURSIVE ExecLines(_, _)
ExecLines(lines, r) ==
    IF lines = <<>> \/ r.status # "ok" THEN r
    ELSE ExecLines(Tail(lines), ExecLine(Head(lines), r))

\* exec(code, scope): the whole fragment is compiled before any of it runs.
exec(code, df, scope) ==
    LET lines == SplitLines(code)
    IN IF \E i \in 1..Len(lines) : Kind(lines[i]) = "invalid"
       THEN Run(df, WithBuiltins(scope), "raised", "Exception", "invalid syntax",
                NoneValue)
       ELSE ExecLines(lines, Run(df, WithBuiltins(scope), "ok", "", "", NoneValue))

\* eval(source, scope): source must be an expression.
eval(source, df, scope) ==
    IF Kind(source) = "expr" THEN Eval(source, df, WithBuiltins(scope))
    ELSE Run(df, WithBuiltins(scope), "raised", "Exception", "invalid syntax",
             NoneValue)

\* The lookup in the order answer, output, result.
ResultName_answer_first(scope) ==
    IF "answer" \in DOMAIN scope THEN <<"answer">>
    ELSE IF "output" \in DOMAIN scope THEN <<"output">>
    ELSE IF "result" \in DOMAIN scope THEN <<"result">>
    ELSE <<>>

\* The first of result, output, answer bound in the scope, <<>> if none is.
ResultName(scope) ==
    IF "result" \in DOMAIN scope THEN <<"result">>
    ELSE IF "output" \in DOMAIN scope THEN <<"output">>
    ELSE IF "answer" \in DOMAIN scope THEN <<"answer">>
    ELSE <<>>

LastLine(code) == SplitLines(code)[Len(SplitLines(code))]

\* An Exception raised inside the try block is raised again as
\* Exception("Code execution error: ..."); any other BaseException and a
\* run that never ends pass through unchanged.
Wrapped(r) ==
    IF r.status = "raised" /\ r.cls = "Exception"
    THEN [r EXCEPT !.msg = "Code execution error: " \o r.msg]
    ELSE r

\* _execute_pandas_code returning the value exec left for the last line,
\* with no eval of it.
_execute_pandas_code_no_eval(code, df) ==
    LET ran == exec(code, df, safe_dict)
        found == ResultName(ran.scope)
    IN IF ran.status # "ok" THEN Wrapped(ran)
       ELSE IF found # <<>> THEN [ran EXCEPT !.value = ran.scope[found[1]]]
       ELSE ran

_execute_pandas_code(code, df) ==
    LET ran == exec(code, df, safe_dict)
        found == ResultName(ran.scope)
    IN IF ran.status # "ok" THEN Wrapped(ran)
       ELSE IF found # <<>> THEN [ran EXCEPT !.value = ran.scope[found[1]]]
       ELSE Wrapped(eval(LastLine(code), ran.df, ran.scope))


(***************************************************************************)
(* Program constants and the inputs of the model.                          *)
(***************************************************************************)
\* Config.MAX_TOKENS
MAX_TOKENS == 2000

\* The values of Config.OPENAI_API_KEY: unset or empty, and a credential.
ApiKeys == {"", "sk-test"}

\* The query texts submitted.
Queries ==
    {"show me the top 5 rows", "Top records", "Give me a summary", "describe",
     "  STATS  ", "how many rows", "list the fields", "any missing values?",
     "correlation",
     "compute the median absolute deviation of salary grouped by department",
     "average age"}

\* The contents the text-generation service answers with.
Responses ==
    {FenceOpen \o "result = len(df)" \o FenceClose,
     "Here is the code:" \o "\n" \o FenceOpen
         \o "df.drop(df.index[0], inplace=True)" \o FenceClose \o "\nThis drops a row.",
     FenceOpen \o "df.drop(df.index[0], inplace=True)\nresult = len(df)" \o FenceClose,
     FenceOpen \o "len(df)" \o FenceClose,
     FenceOpen \o "df.nosuch" \o FenceClose,
     FenceOpen \o "while True: pass" \o FenceClose,
     FenceOpen \o "raise SystemExit" \o FenceClose,
     FenceOpen \o "import os" \o FenceClose,
     FenceOpen \o "result = open(\"/etc/hostname\").read()" \o FenceClose,
     FenceOpen \o "result = pd.read_csv(\"/etc/hostname\")" \o FenceClose,
     FenceOpen \o "  " \o FenceClose,
     "I cannot help with that.",
     "Use df.describe() for this.",
     "answer = df.head(2)"}

\* The faults of the outbound call (openai.error.*, all subclasses of Exception).
ServiceErrors == {"Request timed out", "Rate limit reached"}

(***************************************************************************)
(* State.                                                                  *)
(***************************************************************************)
VARIABLES
    OPENAI_API_KEY, \* Config.OPENAI_API_KEY
    loaded,         \* the dataset as the ingestion produced it
    df,             \* QueryProcessor.df: the caller's DataFrame object itself
    dp_df,          \* QueryProcessor.data_processor.df: a copy made by __init__
    pc,             \* where the current process_query invocation stands
    query,          \* its argument
    request,        \* the request of the outbound call, <<>> when none was made
    response,       \* the content the service answered with, <<>> when none
    code,           \* what _extract_code_from_response returned
    scope,          \* the globals dict the fragment runs in, <<>> when none
    ran,            \* the run of the fragment, <<>> when none has ended
    returned,       \* the outcomes process_query returned, in order
    api_calls,      \* outbound calls of the invocation
    exec_calls,     \* _execute_pandas_code calls of the invocation
    called,         \* the method called directly, its arguments and receiver
    yielded         \* what that call returned or raised

vars == <<OPENAI_API_KEY, loaded, df, dp_df, pc, query, request, response, code,
          scope, ran, returned, api_calls, exec_calls, called, yielded>>

\* QueryProcessor.__init__ on a loaded dataset; no invocation has begun.
Init ==
    /\ OPENAI_API_KEY \in ApiKeys
    /\ loaded \in Datasets
    /\ df = loaded
    /\ dp_df = loaded
    /\ pc = "idle"
    /\ query = ""
    /\ request = <<>>
    /\ response = <<>>
    /\ code = <<>>
    /\ scope = <<>>
    /\ ran = <<>>
    /\ returned = <<>>
    /\ api_calls = 0
    /\ exec_calls = 0
    /\ called = <<>>
    /\ yielded = <<>>

\* No invocation is running.
Ready == pc \in {"idle", "done", "aborted"}

\* QueryProcessor(df) on the session's DataFrame (main.py, show_query_interface):
\* the new processor's DataProcessor copies the frame as it is now.  (On a
\* frame equal to the copy the new processor is the state already there.)
Construct ==
    /\ Ready
    /\ dp_df # df
    /\ dp_df' = df
    /\ UNCHANGED <<OPENAI_API_KEY, loaded, df, pc, query, request, response, code,
                   scope, ran, returned, api_calls, exec_calls, called, yielded>>

\* process_query with the credential test ahead of the tier-1 result.
process_query_key_first(q, key, frame, copy) ==
    LET result == _process_simple_query(q, frame, copy)
    IN IF result.raised /\ result.cls = "Exception"
       THEN [returns |-> <<Failure("Error processing query: " \o result.msg)>>,
             calls |-> FALSE]
       ELSE IF key # ""
       THEN [returns |-> <<>>, calls |-> TRUE]
       ELSE IF result.value.success
       THEN [returns |-> <<result.value>>, calls |-> FALSE]
       ELSE [returns |-> <<Failure("Complex queries require OpenAI API key. Please configure it in your environment.")>>,
             calls |-> FALSE]

\* process_query handing the tier-1 result back when there is no credential.
process_query_returns_miss(q, key, frame, copy) ==
    LET result == _process_simple_query(q, frame, copy)
    IN IF result.raised /\ result.cls = "Exception"
       THEN [returns |-> <<Failure("Error processing query: " \o result.msg)>>,
             calls |-> FALSE]
       ELSE IF result.value.success \/ key = ""
       THEN [returns |-> <<result.value>>, calls |-> FALSE]
       ELSE [returns |-> <<>>, calls |-> TRUE]

\* process_query going on to tier 2 when the tier-1 operation raises.
process_query_fault_escalates(q, key, frame, copy) ==
    LET result == _process_simple_query(q, frame, copy)
    IN IF ~result.raised /\ result.value.success
       THEN [returns |-> <<result.value>>, calls |-> FALSE]
       ELSE IF key # ""
       THEN [returns |-> <<>>, calls |-> TRUE]
       ELSE [returns |-> <<Failure("Complex queries require OpenAI API key. Please configure it in your environment.")>>,
             calls |-> FALSE]

\* process_query up to its return or its outbound call: what it returns
\* (<<>> when it goes on to tier 2) and whether it calls the service.
process_query(q, key, frame, copy) ==
    LET result == _process_simple_query(q, frame, copy)
    IN IF result.raised /\ result.cls = "Exception"
       THEN [returns |-> <<Failure("Error processing query: " \o result.msg)>>,
             calls |-> FALSE]
       ELSE IF result.value.success
       THEN [returns |-> <<result.value>>, calls |-> FALSE]
       ELSE IF key # ""
       THEN [returns |-> <<>>, calls |-> TRUE]
       ELSE [returns |-> <<Failure("Complex queries require OpenAI API key. Please configure it in your environment.")>>,
             calls |-> FALSE]

\* The request of openai.ChatCompletion.create.
ChatRequest(q) ==
    [model |-> "gpt-4", user_query |-> q, max_tokens |-> MAX_TOKENS,
     temperature |-> "0.1"]

\* A call of process_query(q).
StartQuery(q) ==
    LET step == process_query(q, OPENAI_API_KEY, df, dp_df)
    IN /\ Ready
       /\ query' = q
       /\ returned' = step.returns
       /\ pc' = IF step.calls THEN "calling" ELSE "done"
       /\ api_calls' = IF step.calls THEN 1 ELSE 0
       /\ request' = IF step.calls THEN <<ChatRequest(q)>> ELSE <<>>
       /\ response' = <<>>
       /\ code' = <<>>
       /\ scope' = <<>>
       /\ ran' = <<>>
       /\ exec_calls' = 0
       /\ UNCHANGED <<OPENAI_API_KEY, loaded, df, dp_df, called, yielded>>

\* _process_ai_query testing `code is not None` in place of `code`.
after_response_not_none(content) ==
    LET extracted == _extract_code_from_response(content)
    IN IF extracted # <<>>
       THEN [code |-> extracted, executes |-> TRUE, returns |-> <<>>]
       ELSE [code |-> extracted, executes |-> FALSE,
             returns |-> <<Failure("Could not generate valid code from the query")>>]

\* _process_ai_query once the service has answered with content: the
\* fragment it hands to the executor (<<>> when it hands none) and what it
\* returns when it hands none.
after_response(content) ==
    LET extracted == _extract_code_from_response(content)
    IN IF Truthy(extracted)
       THEN [code |-> extracted, executes |-> TRUE, returns |-> <<>>]
       ELSE [code |-> extracted, executes |-> FALSE,
             returns |-> <<Failure("Could not generate valid code from the query")>>]

\* The service answers the call in flight.
ServiceResponds(content) ==
    LET step == after_response(content)
    IN /\ pc = "calling"
       /\ response' = <<content>>
       /\ code' = step.code
       /\ returned' = returned \o step.returns
       /\ pc' = IF step.executes THEN "executing" ELSE "done"
       /\ exec_calls' = IF step.executes THEN exec_calls + 1 ELSE exec_calls
       /\ scope' = IF step.executes THEN <<WithBuiltins(safe_dict)>> ELSE <<>>
       /\ UNCHANGED <<OPENAI_API_KEY, loaded, df, dp_df, query, request, ran,
                      api_calls, called, yielded>>

\* The call in flight raises: the except clause of _process_ai_query.
ServiceFails(e) ==
    /\ pc = "calling"
    /\ returned' = returned \o <<Failure("AI processing error: " \o e)>>
    /\ pc' = "done"
    /\ UNCHANGED <<OPENAI_API_KEY, loaded, df, dp_df, query, request, response,
                   code, scope, ran, api_calls, exec_calls, called, yielded>>

\* _process_ai_query keeping the data key in its failure dict.
after_execution_keeps_data(content, fragment, r) ==
    IF r.status = "ok" THEN <<Success(r.value, content, fragment)>>
    ELSE IF r.cls = "Exception"
    THEN <<[success |-> FALSE, error |-> "AI processing error: " \o r.msg,
            data |-> r.value]>>
    ELSE <<>>

\* What _process_ai_query returns once the executor has ended with run r:
\* <<>> when the executor's exception is no Exception and passes through
\* both except clauses.
after_execution(content, fragment, r) ==
    IF r.status = "ok" THEN <<Success(r.value, content, fragment)>>
    ELSE IF r.cls = "Exception" THEN <<Failure("AI processing error: " \o r.msg)>>
    ELSE <<>>

\* The fragment in the executor comes to an end (it returns or raises).
\* exec and eval run it with no limit of time.
FragmentEnds == _execute_pandas_code(code[1], df).status # "diverged"

\* The executor ends: the fragment has run to its end or raised.  A
\* fragment that never ends leaves the invocation in the executor.
ExecutionEnds ==
    LET r == _execute_pandas_code(code[1], df)
        out == after_execution(response[1], code[1], r)
    IN /\ pc = "executing"
       /\ FragmentEnds
       /\ ran' = <<r>>
       /\ df' = r.df
       /\ scope' = <<r.scope>>
       /\ returned' = returned \o out
       /\ pc' = IF out = <<>> THEN "aborted" ELSE "done"
       /\ UNCHANGED <<OPENAI_API_KEY, loaded, dp_df, query, request, response, code,
                      api_calls, exec_calls, called, yielded>>

Next ==
    \/ Construct
    \/ \E q \in Queries : StartQuery(q)
    \/ \E content \in Responses : ServiceResponds(content)
    \/ \E e \in ServiceErrors : ServiceFails(e)
    \/ ExecutionEnds

Spec == Init /\ [][Next]_vars

(***************************************************************************)
(* Direct calls: the methods of QueryProcessor and DataProcessor called    *)
(* one at a time on the objects __init__ built, as the unit tests of       *)
(* tests/test_data_processor.py call them: each run builds the objects     *)
(* anew (setUp) and makes one call, or filters and filters the outcome     *)
(* again.  `called` records the method, its arguments and the frame it ran *)
(* on; `yielded` what it gave back.                                        *)
(***************************************************************************)
\* The query texts handed to _process_simple_query.
UnitQueries ==
    Queries \cup
    {"top 2 entries of 30", "TOP 0 ROWS", "the top 007 records", "stop entries",
     "rows 1 to 3 from the top", "summary statistics", "top rows summary",
     "describe the summary", "count the columns", "number of rows and stats",
     "columns with missing values", "null correlation", "corr of info", ""}

\* The conditions dicts handed to filter_data (one item each).
UnitConditions ==
    {<< <<"age", RangeCond(<<21>>, <<22>>)>> >>,
     << <<"age", RangeCond(<<22>>, <<>>)>> >>,
     << <<"salary", RangeCond(<<>>, <<200>>)>> >>,
     << <<"id", ListCond({1, 3})>> >>,
     << <<"id", ValueCond(2)>> >>,
     << <<"x", RangeCond(<<1>>, <<3>>)>> >>,
     << <<"x", RangeCond(<<3>>, <<1>>)>> >>,
     << <<"department", RangeCond(<<1>>, <<2>>)>> >>}

\* The fragments handed to _execute_pandas_code.
UnitFragments ==
    {"result = len(df)", "len(df)", "answer = df.head(2)",
     "answer = df.shape[1]\nresult = len(df)",
     "output = len(df)\nanswer = df.shape[1]",
     "answer = df.shape[1]\noutput = len(df)\nlen(df)",
     "result = df.drop(df.index[0], inplace=True)\ndf.shape[1]",
     "result = len(df)\ndf.drop(df.index[0], inplace=True)",
     "df.drop(df.index[0], inplace=True)",
     "total = len(df)\ndf.drop(df.index[0], inplace=True)",
     "len(df)\nimport os",
     "total = len(df)", "total = len(df)\ndf.shape[1]",
     "df.nosuch", "output = df.nosuch", "raise SystemExit", "for this"}

\* The contents handed to _extract_code_from_response.
UnitResponses ==
    Responses \cup
    {"Sure!\n" \o FenceOpen \o "  len(df)  " \o FenceClose \o "\nDone.",
     FenceOpen \o "len(df)" \o FenceClose \o "\n" \o FenceOpen \o "df.nosuch"
         \o FenceClose,
     Fence \o "\nlen(df)" \o FenceClose,
     "The answer:\nresult = len(df)\nThat is all.",
     "You can import the data and print it.",
     "len(df)", ""}

Call(method, args, frame) == [method |-> method, args |-> args, frame |-> frame]

\* The conjunction of two one-item conditions dicts as one dict: the two
\* items when they name different columns, the tighter range when both are
\* ranges on one column.  No other pair on one column is a dict.
Conjoinable(c1, c2) ==
    c1[1][1] # c2[1][1] \/ (c1[1][2].kind = "dict" /\ c2[1][2].kind = "dict")
\* The larger of two optional lower bounds, the smaller of two upper ones.
TighterMin(a, b) ==
    IF a = <<>> THEN b ELSE IF b = <<>> THEN a ELSE IF a[1] >= b[1] THEN a ELSE b
TighterMax(a, b) ==
    IF a = <<>> THEN b ELSE IF b = <<>> THEN a ELSE IF a[1] <= b[1] THEN a ELSE b
Conjunction(c1, c2) ==
    IF c1[1][1] # c2[1][1] THEN c1 \o c2
    ELSE << <<c1[1][1], RangeCond(TighterMin(c1[1][2].lo, c2[1][2].lo),
                                  TighterMax(c1[1][2].hi, c2[1][2].hi))>> >>

Direct(call, value) ==
    /\ pc = "idle"
    /\ called' = call
    /\ yielded' = value
    /\ UNCHANGED <<OPENAI_API_KEY, loaded, dp_df, pc, query, request, response,
                   code, scope, ran, returned, api_calls, exec_calls>>

Call_process_simple_query(q) ==
    /\ called = <<>>
    /\ Direct(Call("_process_simple_query", <<q>>, df),
              _process_simple_query(q, df, dp_df))
    /\ UNCHANGED df

Call_analyze_missing_data ==
    /\ called = <<>>
    /\ Direct(Call("analyze_missing_data", <<>>, dp_df), analyze_missing_data(dp_df))
    /\ UNCHANGED df

Call_correlation_analysis ==
    /\ called = <<>>
    /\ Direct(Call("correlation_analysis", <<>>, dp_df), correlation_analysis(dp_df))
    /\ UNCHANGED df

Call_filter_data(conditions) ==
    /\ called = <<>>
    /\ Direct(Call("filter_data", <<conditions>>, dp_df),
              filter_data(dp_df, conditions))
    /\ UNCHANGED df

\* DataProcessor(filtered).filter_data(conditions) on the frame the last
\* filter_data call returned.
Call_filter_data_again(conditions) ==
    /\ called # <<>> /\ called.method = "filter_data" /\ Len(called.args) = 1
    /\ Conjoinable(called.args[1], conditions)
    /\ Direct(Call("filter_data", called.args \o <<conditions>>, called.frame),
              filter_data(yielded, conditions))
    /\ UNCHANGED df

Call_extract_code_from_response(content) ==
    /\ called = <<>>
    /\ Direct(Call("_extract_code_from_response", <<content>>, df),
              _extract_code_from_response(content))
    /\ UNCHANGED df

\* _execute_pandas_code(fragment) returns or raises; the frame bound to df
\* is the processor's own.
Call_execute_pandas_code(fragment) ==
    LET r == _execute_pandas_code(fragment, df)
    IN /\ called = <<>>
       /\ r.status # "diverged"
       /\ Direct(Call("_execute_pandas_code", <<fragment>>, df), r)
       /\ df' = r.df

UnitNext ==
    \/ \E q \in UnitQueries : Call_process_simple_query(q)
    \/ Call_analyze_missing_data
    \/ Call_correlation_analysis
    \/ \E c \in UnitConditions : Call_filter_data(c)
    \/ \E c \in UnitConditions : Call_filter_data_again(c)
    \/ \E content \in UnitResponses : Call_extract_code_from_response(content)
    \/ \E fragment \in UnitFragments : Call_execute_pandas_code(fragment)

UnitSpec == Init /\ [][UnitNext]_vars


(***************************************************************************)
(* Properties.                                                             *)
(***************************************************************************)
\* The normalized text of the current query matches some tier-1 rule.
Matched == AnyRule(Strip(Lower(query)))
\* An invocation has begun (the one of `query`).
Begun == pc # "idle"

ConfigError ==
    "Complex queries require OpenAI API key. Please configure it in your environment."
NoCodeError == "Could not generate valid code from the query"
ExecErrorPrefix == "Code execution error: "
HasPrefix(s, prefix) == SubSeq(s, 1, Len(prefix)) = prefix

\* C1 as stated: for every query that a tier-1 rule matches, process_query
\* ends with a success outcome, without a call of the text-generation
\* service or of the executor, with or without a credential.
C1_MatchAlwaysSucceeds ==
    (Begun /\ Matched) =>
        /\ pc = "done" /\ Len(returned) = 1 /\ returned[1].success
        /\ api_calls = 0 /\ exec_calls = 0

\* C1 as amended: for every query that a tier-1 rule matches, process_query
\* returns exactly one outcome without a call of the text-generation service
\* or of the executor, with or without a credential; the outcome is the
\* tier-1 success unless the canned operation of the rule raises, and then
\* it is the failure "Error processing query: <message>".
C1_MatchStaysInTierOne ==
    (Begun /\ Matched) =>
        /\ pc = "done" /\ Len(returned) = 1
        /\ api_calls = 0 /\ exec_calls = 0
        /\ request = <<>> /\ response = <<>> /\ scope = <<>> /\ ran = <<>>
        /\ LET result == _process_simple_query(query, df, dp_df)
           IN IF result.raised
              THEN returned[1] = Failure("Error processing query: " \o result.msg)
              ELSE /\ returned[1].success
                   /\ returned[1].code = result.value.code
                   /\ returned[1].explanation = result.value.explanation

\* A matched query answered with success although a credential is configured.
C1_Witness ==
    /\ pc = "done" /\ Matched /\ OPENAI_API_KEY # ""
    /\ Len(returned) = 1 /\ returned[1].success

\* C2: for every query that no tier-1 rule matches, without a credential
\* process_query returns the failure with the configuration error, not the
\* matcher's "Query not recognized", and neither the service nor the
\* executor is called.
C2_MissWithoutCredential ==
    (Begun /\ ~Matched /\ OPENAI_API_KEY = "") =>
        /\ pc = "done"
        /\ returned = <<Failure(ConfigError)>>
        /\ api_calls = 0 /\ exec_calls = 0
        /\ request = <<>> /\ scope = <<>> /\ ran = <<>>

\* The query of end-to-end scenario 4, without a credential.
C2_Witness ==
    /\ pc = "done" /\ OPENAI_API_KEY = ""
    /\ query = "compute the median absolute deviation of salary grouped by department"
    /\ ~Matched

\* C3: in tier 2, when the extraction yields None or an empty fragment the
\* outcome is the failure "Could not generate valid code from the query" and
\* the executor is not called; the executor is only ever called with a
\* non-empty fragment.
C3_NoCodeNoExecution ==
    /\ (response # <<>> /\ ~Truthy(_extract_code_from_response(response[1]))) =>
           /\ pc = "done"
           /\ returned = <<Failure(NoCodeError)>>
           /\ exec_calls = 0 /\ scope = <<>> /\ ran = <<>>
    /\ (pc = "executing" \/ exec_calls > 0 \/ ran # <<>>) =>
           /\ code # <<>> /\ code[1] # ""
           /\ code = _extract_code_from_response(response[1])

\* A response whose fenced block is blank: the extracted fragment is empty.
C3_Witness ==
    /\ pc = "done" /\ response # <<>> /\ code = <<"">>
    /\ returned = <<Failure(NoCodeError)>>

\* C4: in tier 2, whenever the execution of the fragment faults,
\* process_query returns a failure outcome whose message carries "Code
\* execution error" and the message of the fault; the fault is neither
\* propagated nor dropped.
C4_FaultBecomesFailure ==
    (ran # <<>> /\ ran[1].status = "raised") =>
        /\ pc = "done" /\ Len(returned) = 1
        /\ ~returned[1].success
        /\ HasPrefix(ran[1].msg, ExecErrorPrefix)
        /\ returned[1].error = "AI processing error: " \o ran[1].msg

\* C5: the executor lets no fault escape: whatever the fragment, its run
\* ends with a value or with the "Code execution error" condition.
C5_ExecutorContainsFaults ==
    ran # <<>> =>
        \/ ran[1].status = "ok"
        \/ /\ ran[1].status = "raised" /\ ran[1].cls = "Exception"
           /\ HasPrefix(ran[1].msg, ExecErrorPrefix)

\* C6: every outcome process_query returns populates exactly one branch:
\* success with data, explanation and code and no error, or failure with a
\* non-empty error and no data.
C6_OneBranch ==
    \A i \in 1..Len(returned) :
        LET o == returned[i]
        IN IF o.success
           THEN /\ DOMAIN o = {"success", "data", "explanation", "code"}
                /\ o.explanation # "" /\ o.code # ""
           ELSE /\ DOMAIN o = {"success", "error"}
                /\ o.error # ""

\* An outcome of tier 2 after an execution that raised.
C6_Witness ==
    /\ pc = "done" /\ exec_calls = 1 /\ Len(returned) = 1
    /\ ~returned[1].success /\ ran # <<>> /\ ran[1].status = "raised"

\* C7: per invocation at most one outbound call and at most one execution,
\* no retry after a failed synthesis or execution, and exactly one outcome
\* reported once the invocation has ended.
C7_OnceAndOneOutcome ==
    /\ api_calls <= 1 /\ exec_calls <= 1 /\ Len(returned) <= 1
    /\ (Begun /\ Ready) => Len(returned) = 1

\* C8: no invocation hangs: one that waits for the service or for the
\* executor can always go on towards its terminal outcome.
\* (The outbound call always ends in the model, with an answer or with an
\* error of the client library; the executor ends when its fragment does.)
C8_NeverHangs == pc = "executing" => FragmentEnds

\* C9: the loaded dataset is never changed by the pipeline.
C9_DatasetUnchanged == df = loaded

\* C10: the scope a fragment runs in holds only the dataset under its one
\* name and len, sum, min, max and round.
C10_ScopeIsAllowList ==
    pc = "executing" =>
        DOMAIN scope[1] \subseteq {"df", "len", "sum", "min", "max", "round"}


\* The current query reaches the correlation rule: its trigger holds and no
\* earlier rule's does.
ReachesCorrelation ==
    LET q == Strip(Lower(query))
    IN /\ CorrRule(q)
       /\ ~(TopRule(q) \/ InfoRule(q) \/ StatsRule(q) \/ CountRule(q)
             \/ ColumnsRule(q) \/ MissingRule(q))

\* C14: when the dataset has fewer than 2 numeric columns, a query that
\* reaches the correlation rule ends in a failure outcome (the condition of
\* insufficient numeric columns), never in a success outcome.
C14_CorrelationNeedsTwoNumeric ==
    (Begun /\ ReachesCorrelation
       /\ Cardinality({c \in 1..NumCols(dp_df) :
                          dp_df.dtypes[c] \in {"int64", "float64"}}) < 2) =>
        /\ pc = "done" /\ Len(returned) = 1
        /\ ~returned[1].success

\* The dataset of the processor has the columns id, age, salary, all of
\* them integers.
IdAgeSalary ==
    /\ dp_df.columns = <<"id", "age", "salary">>
    /\ dp_df.dtypes = <<"int64", "int64", "int64">>

\* Column c of frame f holds at least two distinct values.
Varies(f, c) == Cardinality({f.rows[i][c] : i \in 1..NumRows(f)} \ {NaN}) >= 2

\* C17 as stated: on a dataset with the columns id, age, salary the query
\* "correlation" ends in a success outcome whose data is the 2x2 matrix over
\* (age, salary) with every diagonal entry 1.
C17_TwoByTwo ==
    (Begun /\ query = "correlation" /\ IdAgeSalary /\ NumRows(dp_df) = MaxRows) =>
        /\ pc = "done" /\ Len(returned) = 1
        /\ returned[1].success
        /\ returned[1].data.cols = <<"age", "salary">>
        /\ Len(returned[1].data.rows) = 2
        /\ \A k \in 1..2 : returned[1].data.rows[k][k] = <<"1.0">>

\* C17 as amended: on a dataset with the numeric columns id, age, salary the
\* query "correlation" ends in a success outcome whose data is the 3x3
\* matrix over (id, age, salary); the diagonal entry of every column that
\* holds at least two distinct values is 1.
C17_ThreeByThree ==
    (Begun /\ query = "correlation" /\ IdAgeSalary) =>
        /\ pc = "done" /\ Len(returned) = 1
        /\ returned[1].success
        /\ returned[1].code = "df.corr()"
        /\ returned[1].data.kind = "table"
        /\ returned[1].data.cols = <<"id", "age", "salary">>
        /\ Len(returned[1].data.rows) = 3
        /\ \A k \in 1..3 :
               /\ Len(returned[1].data.rows[k]) = 3
               /\ Varies(dp_df, k) => returned[1].data.rows[k][k] = <<"1.0">>

\* "correlation" answered on the full dataset with id, age and salary.
C17_Witness ==
    /\ pc = "done" /\ query = "correlation"
    /\ dp_df = NumericFrame(MaxRows)
    /\ Len(returned) = 1 /\ returned[1].success
    /\ Len(returned[1].data.rows) = 3
    /\ returned[1].data.rows[1][1] = <<"1.0">>

\* The canned operation of the rule the current query matches raises: the
\* statistics rule on a dataset without columns.
TierOneFault ==
    LET q == Strip(Lower(query))
    IN /\ Begun
       /\ StatsRule(q) /\ ~TopRule(q) /\ ~InfoRule(q)
       /\ df.columns = <<>>

\* The outbound call of the invocation was made and raised: it is over and
\* left no response.
ServiceFault == api_calls = 1 /\ pc # "calling" /\ response = <<>>

\* C22: when the canned operation of a matching tier-1 rule raises, or the
\* outbound call of tier 2 raises, process_query returns a failure outcome
\* with an error message and goes no further: after a tier-1 fault no call
\* of the service is made, after a fault of the call no fragment is
\* executed.
C22_FaultsDoNotEscalate ==
    /\ TierOneFault =>
           /\ pc = "done" /\ Len(returned) = 1
           /\ ~returned[1].success
           /\ HasPrefix(returned[1].error, "Error processing query: ")
           /\ Len(returned[1].error) > Len("Error processing query: ")
           /\ api_calls = 0 /\ request = <<>> /\ response = <<>>
           /\ exec_calls = 0 /\ scope = <<>> /\ ran = <<>>
    /\ ServiceFault =>
           /\ pc = "done" /\ Len(returned) = 1
           /\ ~returned[1].success
           /\ \E e \in ServiceErrors : returned[1].error = "AI processing error: " \o e
           /\ code = <<>>
           /\ exec_calls = 0 /\ scope = <<>> /\ ran = <<>>

\* "describe" on a dataset without columns, with a credential configured.
C22_Witness ==
    /\ TierOneFault /\ OPENAI_API_KEY # ""
    /\ query = "describe" /\ pc = "done"
    /\ returned
         = <<Failure("Error processing query: Cannot describe a DataFrame without columns")>>

(***************************************************************************)
(* Properties of the methods called directly (UnitSpec).                   *)
(***************************************************************************)
IsCall(method) == called # <<>> /\ called.method = method

\* The triggers of the seven rules on normalized text q, in the order
\* top-N, overview/info, statistics, row count, column listing, missing
\* values, correlation.
Triggers(q) ==
    <<TopRule(q), InfoRule(q), StatsRule(q), CountRule(q), ColumnsRule(q),
      MissingRule(q), CorrRule(q)>>

\* The code each rule reports, in the same order (top-N for n rows).
RuleCodes(n) ==
    <<"df.head(" \o ToString(n) \o ")", "df.info()", "df.describe()", "len(df)",
      "df.columns.tolist()", "df.isnull().sum()", "df.corr()">>

\* C11: for every query the rule _process_simple_query applies is the
\* lowest-numbered rule, in the order top-N, overview/info, statistics, row
\* count, column listing, missing values, correlation, whose trigger holds
\* on the lower-cased, trimmed text; the miss is returned if and only if no
\* trigger holds.
C11_FirstMatchingRule ==
    IsCall("_process_simple_query") =>
        LET q == Strip(Lower(called.args[1]))
            hits == {k \in 1..7 : Triggers(q)[k]}
            first == CHOOSE k \in hits : \A j \in hits : k <= j
            n == _extract_number(called.args[1], 10)
        IN IF hits = {}
           THEN yielded = Returned(Failure("Query not recognized"))
           ELSE IF yielded.raised
           THEN first = 3 /\ yielded = describe(called.frame)
           ELSE /\ yielded.value.success
                /\ yielded.value.code = RuleCodes(n)[first]

\* A query on which the row-count and the column-listing triggers both hold.
C11_Witness ==
    /\ IsCall("_process_simple_query")
    /\ called.args[1] = "count the columns"
    /\ CountRule(called.args[1]) /\ ColumnsRule(called.args[1])
    /\ ~yielded.raised /\ yielded.value.code = "len(df)"

\* C12: "Give me a summary" resolves to the overview/info rule, the
\* column-info table, on every call; no query whose text holds the keyword
\* "summary" is resolved by the statistics rule.
C12_SummaryIsOverview ==
    IsCall("_process_simple_query") =>
        /\ called.args[1] = "Give me a summary" =>
               yielded = Returned(Success(get_column_info(dp_df),
                                          "Dataset overview and column information",
                                          "df.info()"))
        /\ Contains(Lower(called.args[1]), "summary") =>
               /\ ~yielded.raised
               /\ yielded.value.success
               /\ yielded.value.code # "df.describe()"
               /\ yielded.value.explanation # "Statistical summary of numeric columns"

\* "Give me a summary" answered with the column-info table of a dataset
\* that has columns.
C12_Witness ==
    /\ IsCall("_process_simple_query")
    /\ called.args[1] = "Give me a summary"
    /\ ~yielded.raised /\ yielded.value.code = "df.info()"
    /\ yielded.value.data.rows # <<>>

\* The first integer literal of text: the digits from the first digit of
\* text up to the next character that is no digit; 10 when text has none.
FirstInteger(text) ==
    LET digits == {i \in 1..Len(text) : IsDigit(SubSeq(text, i, i))}
        from == CHOOSE i \in digits : \A j \in digits : i <= j
        ends == {j \in from..Len(text) :
                    /\ \A k \in from..j : k \in digits
                    /\ (j + 1) \notin digits}
    IN IF digits = {} THEN 10
       ELSE ParseInt(SubSeq(text, from, CHOOSE j \in ends : TRUE))

\* C13: for every query matching the top-N rule, N is the first integer
\* literal of the raw text (10 when it has none), the table returned has
\* exactly min(N, totalRows) rows, they are the first rows of the dataset
\* in original order, and the explanation names N.
C13_TopN ==
    (IsCall("_process_simple_query") /\ TopRule(Strip(Lower(called.args[1])))) =>
        LET N == FirstInteger(called.args[1])
            total == NumRows(called.frame)
            count == IF N <= total THEN N ELSE total
        IN /\ ~yielded.raised
           /\ yielded.value.success
           /\ yielded.value.data.kind = "table"
           /\ yielded.value.data.cols = called.frame.columns
           /\ Len(yielded.value.data.rows) = count
           /\ \A i \in 1..count : yielded.value.data.rows[i] = called.frame.rows[i]
           /\ yielded.value.explanation
                  = "Showing top " \o ToString(N) \o " rows from the dataset"

\* A query with two integers on a dataset larger than the first of them.
C13_Witness ==
    /\ IsCall("_process_simple_query")
    /\ called.args[1] = "top 2 entries of 30"
    /\ NumRows(called.frame) > 2
    /\ ~yielded.raised /\ Len(yielded.value.data.rows) = 2


\* The report of analyze_missing_data on the frame of the call: empty if and
\* only if no column holds a null; else one row for each column with a null
\* and none for the others, with the column's null count, ordered by
\* non-increasing count.
MissingReportRows ==
    LET f == called.frame
        nulls(c) == Cardinality({i \in 1..NumRows(f) : f.rows[i][c] = NaN})
        withNulls == {c \in 1..NumCols(f) : nulls(c) > 0}
        rows == yielded.rows
    IN /\ (yielded.cols = <<>> /\ rows = <<>>) <=> (withNulls = {})
       /\ Len(rows) = Cardinality(withNulls)
       /\ \A c \in withNulls :
              \E k \in 1..Len(rows) :
                  rows[k][1] = <<f.columns[c]>> /\ rows[k][2] = <<nulls(c)>>
       /\ \A k \in 1..(Len(rows) - 1) : rows[k][2][1] >= rows[k + 1][2][1]

\* C15 as stated: the report is empty iff no column holds a null, has
\* exactly one row for each column with a null, in non-increasing order of
\* the missing count, and each row's percentage equals
\* nullCount / totalRows * 100.  (Percentages are in hundredths.)
C15_MissingReportExact ==
    IsCall("analyze_missing_data") =>
        /\ MissingReportRows
        /\ \A k \in 1..Len(yielded.rows) :
               yielded.rows[k][3][1] * NumRows(called.frame)
                   = yielded.rows[k][2][1] * 10000

\* C15 as amended: the same, each row's percentage being
\* nullCount / totalRows * 100 rounded to two decimals: the hundredth
\* nearest to it.
C15_MissingReportRounded ==
    IsCall("analyze_missing_data") =>
        /\ MissingReportRows
        /\ \A k \in 1..Len(yielded.rows) :
               LET d == yielded.rows[k][3][1] * NumRows(called.frame)
                           - yielded.rows[k][2][1] * 10000
               IN 2 * d <= NumRows(called.frame) /\ -2 * d <= NumRows(called.frame)

\* Two columns with nulls, the second with more of them than the first,
\* and percentages that are no whole hundredths.
C15_Witness ==
    /\ IsCall("analyze_missing_data")
    /\ NumRows(called.frame) = 3
    /\ Len(yielded.rows) = 2
    /\ yielded.rows[1] = << <<"name">>, <<2>>, <<6667>> >>
    /\ yielded.rows[2] = << <<"x">>, <<1>>, <<3333>> >>

\* C18: correlation_analysis returns a square matrix with exactly one row
\* and one column for each numeric column of the dataset, in their order;
\* no other column appears in it.
C18_SquareOverNumeric ==
    IsCall("correlation_analysis") =>
        LET f == called.frame
            numeric == {c \in 1..NumCols(f) : f.dtypes[c] \in {"int64", "float64"}}
        IN /\ Len(yielded.cols) = Cardinality(numeric)
           /\ Len(yielded.rows) = Cardinality(numeric)
           /\ \A k \in 1..Len(yielded.rows) : Len(yielded.rows[k]) = Cardinality(numeric)
           /\ {yielded.cols[k] : k \in 1..Len(yielded.cols)}
                  = {f.columns[c] : c \in numeric}
           /\ \A j, k \in 1..Len(yielded.cols) :
                  j < k => \E a, b \in numeric :
                               /\ a < b
                               /\ yielded.cols[j] = f.columns[a]
                               /\ yielded.cols[k] = f.columns[b]

\* The matrix of a dataset with one numeric and one text column.
C18_Witness ==
    /\ IsCall("correlation_analysis")
    /\ called.frame = MixedFrame(MaxRows)
    /\ yielded.cols = <<"x">> /\ Len(yielded.rows) = 1


\* The value v of a cell lies in the range of condition cond: at or above
\* its min, at or below its max.
InRange(cell, cond) ==
    /\ cell # NaN
    /\ cond.lo # <<>> => cond.lo[1] <= cell[1]
    /\ cond.hi # <<>> => cell[1] <= cond.hi[1]

\* C16: filter_data with a range condition on a column of the dataset
\* returns exactly the rows whose value in that column lies between min and
\* max, both inclusive, in their order; and filtering with c1 and then the
\* outcome with c2 returns the rows one filter with the conjunction of c1
\* and c2 returns.
C16_RangeAndComposition ==
    IsCall("filter_data") =>
        LET f == called.frame
            c1 == called.args[1]
            c == ColumnAt(f, c1[1][1])
        IN /\ (Len(called.args) = 1 /\ c1[1][2].kind = "dict" /\ c # 0) =>
                  /\ yielded.columns = f.columns
                  /\ yielded.rows
                         = SelectSeq(f.rows, LAMBDA row : InRange(row[c], c1[1][2]))
           /\ Len(called.args) = 2 =>
                  yielded = filter_data(f, Conjunction(c1, called.args[2]))

\* A range filter with both bounds that keeps some rows and drops others,
\* followed by a second filter that drops more.
C16_Witness ==
    /\ IsCall("filter_data")
    /\ Len(called.args) = 2
    /\ called.args[1] = << <<"age", RangeCond(<<21>>, <<22>>)>> >>
    /\ called.args[2] = << <<"id", ListCond({1, 3})>> >>
    /\ NumRows(called.frame) = 3
    /\ yielded.rows = <<NumericRow(1)>>


\* C19: after a fragment has executed without fault, the executor's result
\* is the value bound to result if that name is bound in the execution
\* scope, else the value bound to output, else the value bound to answer;
\* only when none of the three is bound is the final line of the fragment
\* evaluated as an expression, and the result is its value.
C19_ResultLookup ==
    IsCall("_execute_pandas_code") =>
        LET fragment == called.args[1]
            e == exec(fragment, called.frame, safe_dict)
            last == eval(LastLine(fragment), e.df, e.scope)
            bound(name) ==
                /\ yielded.status = "ok"
                /\ yielded.value = e.scope[name]
                /\ yielded.df = e.df
        IN e.status = "ok" =>
               IF "result" \in DOMAIN e.scope THEN bound("result")
               ELSE IF "output" \in DOMAIN e.scope THEN bound("output")
               ELSE IF "answer" \in DOMAIN e.scope THEN bound("answer")
               ELSE /\ yielded.status = last.status
                    /\ yielded.df = last.df
                    /\ last.status = "ok" => yielded.value = last.value

\* A fragment that binds answer and then result to different values.
C19_Witness ==
    /\ IsCall("_execute_pandas_code")
    /\ called.args[1] = "answer = df.shape[1]\nresult = len(df)"
    /\ NumRows(called.frame) # NumCols(called.frame)
    /\ yielded.status = "ok"
    /\ yielded.value = Number(NumRows(called.frame))

\* A line that is Python: a dataset operation, an assignment or another
\* statement; every other line is prose.
IsProse(line) == Kind(line) = "invalid"

\* C20: extraction returns the text between the fenced-code delimiters
\* when the response holds a pair of them; when it holds none, the fragment
\* consists only of lines of the response that are dataset operations or
\* assignments, never of a prose line, and when the response has no such
\* line extraction returns None.
C20_ExtractsOnlyCode ==
    IsCall("_extract_code_from_response") =>
        LET content == called.args[1]
            open == Find(content, FenceOpen, 1)
            close == IF open = 0 THEN 0
                     ELSE Find(content, FenceClose, open + Len(FenceOpen))
            lines == SplitLines(content)
            code_lines == {lines[i] : i \in {j \in 1..Len(lines) : ~IsProse(lines[j])}}
        IN IF open # 0 /\ close # 0
           THEN yielded = <<Strip(SubSeq(content, open + Len(FenceOpen), close - 1))>>
           ELSE /\ code_lines = {} => yielded = <<>>
                /\ yielded # <<>> =>
                       \A k \in 1..Len(SplitLines(yielded[1])) :
                           SplitLines(yielded[1])[k] \in code_lines


\* The call of _execute_pandas_code is one whose fragment executes without
\* fault and binds none of result, output, answer.
BindsNoResult ==
    /\ IsCall("_execute_pandas_code")
    /\ LET e == exec(called.args[1], called.frame, safe_dict)
       IN /\ e.status = "ok"
          /\ DOMAIN e.scope \cap {"result", "output", "answer"} = {}

\* The run of the lines of the fragment of the call before its final line.
BeforeLastLine ==
    LET lines == SplitLines(called.args[1])
    IN ExecLines(SubSeq(lines, 1, Len(lines) - 1),
                 Run(called.frame, WithBuiltins(safe_dict), "ok", "", "", NoneValue))

\* The executor ended as run r of the final line did: with its dataset and
\* scope, and with its value or, when it raised, with the condition
\* "Code execution error".
EndedAs(r) ==
    /\ yielded.df = r.df
    /\ yielded.scope = r.scope
    /\ yielded.status = r.status
    /\ r.status = "ok" => yielded.value = r.value
    /\ r.status = "raised" => yielded.msg = ExecErrorPrefix \o r.msg

=============================================================================
